---------------------------- MODULE Spec2Model ----------------------------
(***************************************************************************)
(* A model of Traffic.py: the scoped pen managers (PenUp, KeepPos), the    *)
(* click guard (UnbindTurtle), the redraw cycle (draw and the routines it  *)
(* calls) and the random scenario generators.                              *)
(*                                                                         *)
(* Lengths are kept in tenths of a turtle unit (RADIUS / 4 = 67.5 is       *)
(* exact), sines and cosines in thousandths, so a coordinate is an integer *)
(* number of 1/10000 units.  Headings are whole degrees, multiples of ten  *)
(* wherever a position is computed from them.  A string is the sequence of *)
(* its characters.                                                         *)
(***************************************************************************)
EXTENDS Integers, Sequences, FiniteSets, TLC

VARIABLES
    turtle,   \* the pen: [pos, heading, isdown], the marks on the surface, the redraw stamp
    onclick,  \* what turtle.onscreenclick is bound to: "draw" or "None"
    phase,    \* where the process is: "start", "initialized", "main", "mainloop", "exited"
    frames,   \* the call stack of the redraw in progress, innermost last
    scopes,   \* the open with-blocks, innermost last
    exc,      \* TRUE while an error raised by a drawing call is propagating
    clicked,  \* TRUE once a click was delivered during the redraw in progress
    moves,    \* number of cursor moves made by the scope harness
    log,      \* what draw has called and drawn at random so far in this redraw, in order
    rnd,      \* the random draws handed to a generator
    out       \* what the generator returned for them

vars ==
    <<turtle, onclick, phase, frames, scopes, exc, clicked, moves, log, rnd, out>>

-----------------------------------------------------------------------------
(* Program constants *)

CALLSIGNS ==
    { <<"A","C","A">>, <<"B","A","W">>, <<"G","G","N">>, <<"N","C","B">>,
      <<"N","W","T">>, <<"C","F","C">>, <<"J","Z","A">>, <<"W","J","A">>,
      <<"U","A","L">>, <<"C","R","Q">>, <<"D","A","L">>, <<"G","L","R">>,
      <<"D","L","H">>, <<"A","F","R">> }

PLANE_TYPES ==
    { "A320", "B190", "B747", "CRJ9", "B737", "C500",
      "A340", "GLF5", "E190", "DH8C", "C208", "BE9L" }

ALTITUDE_RANGE == <<90, 290>>

PARITIES == {1, -1}
PPS_SIDE == 10
RADIUS == 270
MILE_LENGTH == 40
SMALLEST_SAME_HEADING_ANGLE == 30
SCALE_BRACKET_TICK_LENGTH == 10

\* sqrt(3) in thousandths (draw_triangle's side is PPS_SIDE * sqrt(3))
SQRT3 == 1732

-----------------------------------------------------------------------------
(* Bounds of the model *)

MaxDepth == 3      \* open scopes in the scope harness
MaxMoves == 2      \* cursor moves in one run of the scope harness
MaxRedraws == 2    \* calls of draw in one run of the program

-----------------------------------------------------------------------------
(* The turtle library, as far as the program uses it *)

Tenths(n) == 10 * n
Coord(n) == 10000 * n

\* sin of 0, 10, ..., 90 degrees, in thousandths
SinTable == <<0, 174, 342, 500, 643, 766, 866, 940, 985, 1000>>

Sin(h) ==
    LET a == h % 360 IN
    IF a <= 90 THEN SinTable[(a \div 10) + 1]
    ELSE IF a <= 180 THEN SinTable[((180 - a) \div 10) + 1]
    ELSE IF a <= 270 THEN -SinTable[((a - 180) \div 10) + 1]
    ELSE -SinTable[((360 - a) \div 10) + 1]

Cos(h) == Sin(h + 90)

\* Turtle() after mode('logo'): at the origin, heading 0 (north), pen down
NewTurtle ==
    [pos |-> <<0, 0>>, heading |-> 0, isdown |-> TRUE, marks |-> {}, redraw |-> 0]

Mark(t, kind, to, text) ==
    [kind |-> kind, from |-> t.pos, to |-> to, text |-> text, redraw |-> t.redraw]

penup(t) == [t EXCEPT !.isdown = FALSE]

pendown(t) == [t EXCEPT !.isdown = TRUE]

\* heading() is always reported in [0, 360)
setheading(t, to_angle) == [t EXCEPT !.heading = to_angle % 360]

\* a move to p draws the segment when the pen is down
MoveTo(t, p) ==
    [t EXCEPT !.pos = p,
              !.marks = IF t.isdown THEN @ \cup {Mark(t, "line", p, <<>>)} ELSE @]

goto(t, x, y) == MoveTo(t, <<x, y>>)

setx(t, x) == MoveTo(t, <<x, t.pos[2]>>)

\* logo mode: heading 0 is north, angles grow clockwise; distance in tenths
forward(t, distance) ==
    MoveTo(t, <<t.pos[1] + distance * Sin(t.heading),
                t.pos[2] + distance * Cos(t.heading)>>)

backward(t, distance) == forward(t, -distance)

\* a full circle ends where it began, with the heading it began with
circle(t, radius) ==
    [t EXCEPT !.marks = IF t.isdown THEN @ \cup {Mark(t, "circle", t.pos, <<>>)} ELSE @]

\* text is written whether the pen is up or down, and does not move the pen
write(t, text) == [t EXCEPT !.marks = @ \cup {Mark(t, "text", t.pos, text)}]

\* a reset that leaves the old drawing in place
clear_nothing(t) == t

clear(t) == [t EXCEPT !.marks = {}]

home(t) == setheading(goto(t, 0, 0), 0)

-----------------------------------------------------------------------------
(* The context managers *)

PenUp_enter(t) == penup(t)

\* a manager whose cleanup is skipped when the body raises
PenUp_exit_not_on_error(t) == IF exc THEN t ELSE pendown(t)

PenUp_exit(t) == pendown(t)

\* the snapshot a KeepPos object holds
KeepPos_init(t) == [x |-> t.pos[1], y |-> t.pos[2], heading |-> t.heading]

\* a restoration that forgets the heading
KeepPos_exit_position_only(t, self) ==
    PenUp_exit(goto(PenUp_enter(t), self.x, self.y))

\* a restoration that is skipped when the body raises
KeepPos_exit_not_on_error(t, self) ==
    IF exc THEN t
    ELSE PenUp_exit(setheading(goto(PenUp_enter(t), self.x, self.y), self.heading))

KeepPos_exit(t, self) ==
    PenUp_exit(setheading(goto(PenUp_enter(t), self.x, self.y), self.heading))

\* a guard that leaves the trigger attached
UnbindTurtle_enter_still_bound == "draw"

\* turtle.onscreenclick(None)
UnbindTurtle_enter == "None"

\* a guard that re-attaches the trigger only when the body did not raise
UnbindTurtle_exit_not_on_error == IF exc THEN "None" ELSE "draw"

\* turtle.onscreenclick(draw)
UnbindTurtle_exit == "draw"

\* An open with-block: the manager and its object, the depth of the frame
\* that opened it, and (for the properties only) the pen as it was then.
Scope(kind, self, t) ==
    [kind |-> kind, self |-> self, depth |-> Len(frames),
     was |-> [pos |-> t.pos, heading |-> t.heading]]

NoSelf == [x |-> 0, y |-> 0, heading |-> 0]

\* the pen after the __exit__ of the with-block sc
ExitScope(t, sc) ==
    IF sc.kind = "KeepPos" THEN KeepPos_exit(t, sc.self)
    ELSE IF sc.kind = "PenUp" THEN PenUp_exit(t)
    ELSE t

Top(s) == s[Len(s)]

Pop(s) == SubSeq(s, 1, Len(s) - 1)

-----------------------------------------------------------------------------
(* Nested scopes under arbitrary composition: any nesting of KeepPos and   *)
(* PenUp blocks, with cursor moves and failing drawing calls inside.       *)

MoveHeadings == {90, 180, 360}
MoveDistances == {Tenths(PPS_SIDE), -Tenths(MILE_LENGTH)}

ScopeInit ==
    /\ turtle = NewTurtle
    /\ onclick = "None"
    /\ phase = "scopes"
    /\ frames = <<>>
    /\ scopes = <<>>
    /\ exc = FALSE
    /\ clicked = FALSE
    /\ moves = 0
    /\ log = <<>>
    /\ rnd = <<>>
    /\ out = <<>>

ScopeFrame == UNCHANGED <<onclick, phase, frames, clicked, log, rnd, out>>

\* with KeepPos():
EnterKeepPos ==
    /\ ~exc /\ Len(scopes) < MaxDepth
    /\ scopes' = Append(scopes, Scope("KeepPos", KeepPos_init(turtle), turtle))
    /\ UNCHANGED <<turtle, exc, moves>>
    /\ ScopeFrame

\* with PenUp():
EnterPenUp ==
    /\ ~exc /\ Len(scopes) < MaxDepth
    /\ turtle' = PenUp_enter(turtle)
    /\ scopes' = Append(scopes, Scope("PenUp", NoSelf, turtle))
    /\ UNCHANGED <<exc, moves>>
    /\ ScopeFrame

\* a cursor move in the body of the innermost open block
MoveForward ==
    /\ ~exc /\ moves < MaxMoves
    /\ \E d \in MoveDistances : turtle' = forward(turtle, d)
    /\ moves' = moves + 1
    /\ UNCHANGED <<scopes, exc>>
    /\ ScopeFrame

MoveTurn ==
    /\ ~exc /\ moves < MaxMoves
    /\ \E h \in MoveHeadings : turtle' = setheading(turtle, h)
    /\ moves' = moves + 1
    /\ UNCHANGED <<scopes, exc>>
    /\ ScopeFrame

\* a drawing call in the body raises
RaiseError ==
    /\ ~exc /\ scopes # <<>>
    /\ exc' = TRUE
    /\ UNCHANGED <<turtle, scopes, moves>>
    /\ ScopeFrame

\* the body of the innermost block ends: its __exit__ runs
LeaveScope ==
    /\ ~exc /\ scopes # <<>>
    /\ turtle' = ExitScope(turtle, Top(scopes))
    /\ scopes' = Pop(scopes)
    /\ UNCHANGED <<exc, moves>>
    /\ ScopeFrame

\* the error leaves the innermost block: its __exit__ runs, the error goes on
UnwindScope ==
    /\ exc /\ scopes # <<>>
    /\ turtle' = ExitScope(turtle, Top(scopes))
    /\ scopes' = Pop(scopes)
    /\ UNCHANGED <<exc, moves>>
    /\ ScopeFrame

ScopeNext ==
    \/ EnterKeepPos
    \/ EnterPenUp
    \/ MoveForward
    \/ MoveTurn
    \/ RaiseError
    \/ LeaveScope
    \/ UnwindScope

SpecScopes == ScopeInit /\ [][ScopeNext]_vars

-----------------------------------------------------------------------------
(* The scenario generators.  Each takes the values its random draws gave.  *)

\* random.randrange(start, stop, step): stop is excluded
randrange(start, stop, step) ==
    {start + k * step : k \in 0..((stop - start - 1) \div step)}

\* a range that includes stop, as randint does
randrange_inclusive(start, stop, step) ==
    {start + k * step : k \in 0..((stop - start) \div step)}

\* random.randint(a, b): both ends included
randint(a, b) == a..b

DigitChar(d) == <<"0", "1", "2", "3", "4", "5", "6", "7", "8", "9">>[d + 1]

RECURSIVE Digits(_)
Digits(n) == IF n < 10 THEN <<DigitChar(n)>>
             ELSE Digits(n \div 10) \o <<DigitChar(n % 10)>>

RECURSIVE ZeroPad(_, _)
ZeroPad(s, width) == IF Len(s) < width THEN ZeroPad(<<"0">> \o s, width) ELSE s

\* formatting without the zero fill
Format_unpadded(n, width) == Digits(n)

\* f'{n:0<width>d}' for n >= 0: zero-filled to width, never cut
Format(n, width) == ZeroPad(Digits(n), width)

\* a draw that can reach the top of the range
AltitudeDraws_inclusive ==
    randrange_inclusive(ALTITUDE_RANGE[1], ALTITUDE_RANGE[2], 10)

\* a = random.randrange(*ALTITUDE_RANGE, step=10)
AltitudeDraws == randrange(ALTITUDE_RANGE[1], ALTITUDE_RANGE[2], 10)

random_altitudes(a) ==
    LET b == a + 10 IN <<Format(a, 3), Format(b, 3)>>

\* the draws of random_acid: the callsign, whether uniform(0, 1) fell below
\* PERCENTAGE_OF_4_DIGIT_FLIGHT_NUMBERS, and the number drawn in that branch
AcidDraws ==
    [callsign : CALLSIGNS, four : {TRUE}, number : randint(0, 9999)]
    \cup [callsign : CALLSIGNS, four : {FALSE}, number : randint(0, 999)]

random_acid(d) ==
    LET number == IF d.four THEN Format(d.number, 4) ELSE Format(d.number, 3)
    IN d.callsign \o number

Aircraft(acid, type, heading, altitude, speed) ==
    [acid |-> acid, type |-> type, heading |-> heading,
     altitude |-> altitude, speed |-> speed]

\* d: the altitude drawn, and for each aircraft its acid draws and its type
generate_aircraft(heading_0, heading_1, d) ==
    LET alt == random_altitudes(d.a)
        craft_0 == Aircraft(random_acid(d.acid_0), d.type_0, heading_0, alt[1], 25)
        craft_1 == Aircraft(random_acid(d.acid_1), d.type_1, heading_1, alt[2], 25)
    IN <<craft_0, craft_1>>

\* A few of the draws generate_aircraft can make besides the altitude
SomeAcidDraws ==
    { [callsign |-> <<"A","C","A">>, four |-> TRUE, number |-> 42],
      [callsign |-> <<"A","F","R">>, four |-> FALSE, number |-> 999] }

SomeTypes == {"A320", "BE9L"}

\* headings the redraw is followed with: multiples of ten in [0, 180)
SomeHeadings == {0, 20, 170}

GenInit ==
    /\ turtle = NewTurtle
    /\ onclick = "None"
    /\ phase = "generators"
    /\ frames = <<>>
    /\ scopes = <<>>
    /\ exc = FALSE
    /\ clicked = FALSE
    /\ moves = 0
    /\ log = <<>>
    /\ out = <<>>
    /\ \/ rnd \in [fn : {"random_altitudes"}, a : AltitudeDraws]
       \/ rnd \in [fn : {"random_acid"}, d : AcidDraws]
       \/ rnd \in [fn : {"generate_aircraft"},
                    heading_0 : SomeHeadings, heading_1 : SomeHeadings,
                    d : [a : AltitudeDraws,
                         acid_0 : SomeAcidDraws, type_0 : SomeTypes,
                         acid_1 : SomeAcidDraws, type_1 : SomeTypes]]

GenFrame ==
    UNCHANGED <<turtle, onclick, phase, frames, scopes, exc, clicked, moves, log, rnd>>

Call_random_altitudes ==
    /\ out = <<>> /\ rnd.fn = "random_altitudes"
    /\ out' = random_altitudes(rnd.a)
    /\ GenFrame

Call_random_acid ==
    /\ out = <<>> /\ rnd.fn = "random_acid"
    /\ out' = random_acid(rnd.d)
    /\ GenFrame

Call_generate_aircraft ==
    /\ out = <<>> /\ rnd.fn = "generate_aircraft"
    /\ out' = generate_aircraft(rnd.heading_0, rnd.heading_1, rnd.d)
    /\ GenFrame

GenNext ==
    \/ Call_random_altitudes
    \/ Call_random_acid
    \/ Call_generate_aircraft

SpecGen == GenInit /\ [][GenNext]_vars

-----------------------------------------------------------------------------
(* The placement heuristic of place_pps *)

Abs(n) == IF n < 0 THEN -n ELSE n

\* a flip that leaves the parity as it is
OppositeParity_same(parity) == parity

\* parity = 1 if parity == -1 else -1
OppositeParity(parity) == IF parity = -1 THEN 1 ELSE -1

\* The parity of aircraft i (0 or 1), given the parity of the aircraft before
\* it and what random.choice(PARITIES) gives if it is asked
\* the forced branch taken also at a gap equal to the threshold
NextParity_inclusive(i, parity, heading_0, heading_1, choice) ==
    LET heading_angle == Abs(heading_0 - heading_1) IN
    IF i = 1
    THEN IF heading_angle <= SMALLEST_SAME_HEADING_ANGLE
         THEN OppositeParity(parity)
         ELSE choice
    ELSE parity

NextParity(i, parity, heading_0, heading_1, choice) ==
    LET heading_angle == Abs(heading_0 - heading_1) IN
    IF i = 1
    THEN IF heading_angle < SMALLEST_SAME_HEADING_ANGLE
         THEN OppositeParity(parity)
         ELSE choice
    ELSE parity

DistanceDraws == randint(40, 170)

\* the two ends of the distance band
SomeDistances == {d \in DistanceDraws : d \in {40, 170}}

\* HEADING_RANGE, in whole degrees
HeadingDraws == 0..179

PlaceInit ==
    /\ turtle = NewTurtle
    /\ onclick = "None"
    /\ phase = "placement"
    /\ frames = <<>>
    /\ scopes = <<>>
    /\ exc = FALSE
    /\ clicked = FALSE
    /\ moves = 0
    /\ log = <<>>
    /\ out = <<>>
    /\ rnd \in [fn : {"place_pps"}, heading_0 : HeadingDraws, heading_1 : HeadingDraws]

\* the draws place_pps makes and the parities its loop arrives at
Call_place_pps ==
    /\ out = <<>> /\ rnd.fn = "place_pps"
    /\ \E distance \in SomeDistances, parity \in PARITIES, choice \in PARITIES :
          LET parity_0 == NextParity(0, parity, rnd.heading_0, rnd.heading_1, choice)
              parity_1 == NextParity(1, parity_0, rnd.heading_0, rnd.heading_1, choice)
          IN out' = [distance |-> distance, parity_0 |-> parity_0, parity_1 |-> parity_1]
    /\ GenFrame

PlaceNext == Call_place_pps

SpecPlace == PlaceInit /\ [][PlaceNext]_vars

-----------------------------------------------------------------------------
(* The drawing routines.  A routine is the sequence of its statements, with *)
(* its loops unrolled; an instruction is [op, a, b].                        *)

I(op, a, b) == [op |-> op, a |-> a, b |-> b]

\* the calls of the turtle library that draw or move
Primitives ==
    {"clear", "setheading", "home", "setx_pos", "circle",
     "forward", "backward", "goto", "write"}

NoLocals == [headings |-> <<>>, aircraft |-> <<>>, distance |-> 0, parity |-> 0]

\* A routine being run: its statement counter, arguments and locals, how it
\* was called, and (for the properties only) the pen as it was at the call.
Frame(fn, args, via) ==
    [fn |-> fn, pc |-> 1, args |-> args, via |-> via, loc |-> NoLocals,
     was |-> [pos |-> turtle.pos, heading |-> turtle.heading]]

draw_circle ==
    << I("with", "KeepPos", 0),
         I("with", "PenUp", 0),
           I("setx_pos", Coord(RADIUS), 0),
         I("end_with", 0, 0),
         I("circle", Tenths(RADIUS), 0),
       I("end_with", 0, 0) >>

\* a diameter whose far end is reached with the pen down
draw_line_no_PenUp(heading) ==
    << I("with", "KeepPos", 0),
         I("setheading", heading, 0),
         I("forward", Tenths(RADIUS), 0),
         I("backward", 2 * Tenths(RADIUS), 0),
       I("end_with", 0, 0) >>

draw_line(heading) ==
    << I("with", "KeepPos", 0),
         I("with", "PenUp", 0),
           I("setheading", heading, 0),
           I("forward", Tenths(RADIUS), 0),
         I("end_with", 0, 0),
         I("backward", 2 * Tenths(RADIUS), 0),
       I("end_with", 0, 0) >>

draw_lines(heading_0, heading_1) == draw_line(heading_0) \o draw_line(heading_1)

Tag(aircraft) == <<aircraft.acid, aircraft.type, aircraft.altitude, aircraft.speed>>

\* a turn of the loop that does not come back to where it began
place_one_no_KeepPos(i, aircraft, loc) ==
    << I("next_parity", i, 0),
       I("with", "PenUp", 0),
         I("setheading", aircraft.heading, 0),
         I("forward", loc.parity * Tenths(loc.distance), 0),
       I("end_with", 0, 0),
       I("call", "draw_pps", <<>>),
       I("with", "PenUp", 0),
         I("forward", loc.parity * (Tenths(RADIUS) \div 4), 0),
         I("write", Tag(aircraft), 0),
       I("end_with", 0, 0) >>

\* one turn of place_pps's loop, for aircraft i (0 or 1)
place_one(i, aircraft, loc) ==
    << I("next_parity", i, 0),
       I("with", "KeepPos", 0),
         I("with", "PenUp", 0),
           I("setheading", aircraft.heading, 0),
           I("forward", loc.parity * Tenths(loc.distance), 0),
         I("end_with", 0, 0),
         I("call", "draw_pps", <<>>),
         I("with", "PenUp", 0),
           I("forward", loc.parity * (Tenths(RADIUS) \div 4), 0),
           I("write", Tag(aircraft), 0),
         I("end_with", 0, 0),
       I("end_with", 0, 0) >>

place_pps(aircraft_list, loc) ==
    << I("random_distance_parity", 0, 0) >>
    \o place_one(0, aircraft_list[1], loc)
    \o place_one(1, aircraft_list[2], loc)

Side(angle, length) == << I("setheading", angle, 0), I("forward", length, 0) >>

draw_hexagon ==
    Side(120, Tenths(PPS_SIDE)) \o Side(180, Tenths(PPS_SIDE))
    \o Side(240, Tenths(PPS_SIDE)) \o Side(300, Tenths(PPS_SIDE))
    \o Side(360, Tenths(PPS_SIDE)) \o Side(60, Tenths(PPS_SIDE))

draw_triangle ==
    LET triangle_side == (Tenths(PPS_SIDE) * SQRT3) \div 1000 IN
    Side(150, triangle_side) \o Side(270, triangle_side) \o Side(30, triangle_side)

\* a glyph drawn without coming back to the anchor and its heading
draw_pps_no_KeepPos ==
    << I("with", "PenUp", 0),
         I("setheading", 360, 0),
         I("forward", Tenths(PPS_SIDE), 0),
       I("end_with", 0, 0),
       I("call", "draw_hexagon", <<>>),
       I("call", "draw_triangle", <<>>) >>

draw_pps ==
    << I("with", "KeepPos", 0),
         I("with", "PenUp", 0),
           I("setheading", 360, 0),
           I("forward", Tenths(PPS_SIDE), 0),
         I("end_with", 0, 0),
         I("call", "draw_hexagon", <<>>),
         I("call", "draw_triangle", <<>>),
       I("end_with", 0, 0) >>

draw_scale_bracket ==
    << I("forward", Tenths(SCALE_BRACKET_TICK_LENGTH), 0),
       I("setheading", 90, 0),
       I("forward", Tenths(MILE_LENGTH), 0),
       I("setheading", 180, 0),
       I("forward", Tenths(SCALE_BRACKET_TICK_LENGTH), 0) >>

\* a scale drawn without coming back to where the cursor was
draw_scale_no_KeepPos ==
    LET scale_start == <<Coord(-RADIUS), Coord(RADIUS)>> IN
    << I("with", "PenUp", 0),
         I("goto", scale_start[1], scale_start[2]),
         I("setheading", 360, 0),
       I("end_with", 0, 0),
       I("call", "draw_scale_bracket", <<>>),
       I("with", "PenUp", 0),
         I("goto", scale_start[1] + Coord(MILE_LENGTH) \div 2,
                   scale_start[2] + Coord(10)),
       I("end_with", 0, 0),
       I("write", <<"1 MILE">>, 0) >>

draw_scale ==
    LET scale_start == <<Coord(-RADIUS), Coord(RADIUS)>> IN
    << I("with", "KeepPos", 0),
         I("with", "PenUp", 0),
           I("goto", scale_start[1], scale_start[2]),
           I("setheading", 360, 0),
         I("end_with", 0, 0),
         I("call", "draw_scale_bracket", <<>>),
         I("with", "PenUp", 0),
           I("goto", scale_start[1] + Coord(MILE_LENGTH) \div 2,
                     scale_start[2] + Coord(10)),
         I("end_with", 0, 0),
         I("write", <<"1 MILE">>, 0),
       I("end_with", 0, 0) >>

\* a draw that draws the scale before the circle
draw_scale_first(loc) ==
    << I("with", "UnbindTurtle", 0),
         I("call", "reset", <<>>),
         I("call", "draw_scale", <<>>),
         I("random_headings", 0, 0),
         I("call", "draw_lines", loc.headings),
         I("generate_aircraft", 0, 0),
         I("call", "place_pps", loc.aircraft),
         I("call", "draw_circle", <<>>),
       I("end_with", 0, 0) >>

reset ==
    << I("clear", 0, 0),
       I("setheading", 360, 0),
       I("home", 0, 0) >>

draw(loc) ==
    << I("with", "UnbindTurtle", 0),
         I("call", "reset", <<>>),
         I("call", "draw_circle", <<>>),
         I("random_headings", 0, 0),
         I("call", "draw_lines", loc.headings),
         I("generate_aircraft", 0, 0),
         I("call", "place_pps", loc.aircraft),
         I("call", "draw_scale", <<>>),
       I("end_with", 0, 0) >>

\* the statements of the routine a frame is running
Code(f) ==
    CASE f.fn = "draw" -> draw(f.loc)
      [] f.fn = "reset" -> reset
      [] f.fn = "draw_circle" -> draw_circle
      [] f.fn = "draw_lines" -> draw_lines(f.args[1], f.args[2])
      [] f.fn = "place_pps" -> place_pps(f.args, f.loc)
      [] f.fn = "draw_pps" -> draw_pps
      [] f.fn = "draw_hexagon" -> draw_hexagon
      [] f.fn = "draw_triangle" -> draw_triangle
      [] f.fn = "draw_scale" -> draw_scale
      [] f.fn = "draw_scale_bracket" -> draw_scale_bracket

\* the object the innermost open 'with KeepPos() as pos' is bound to
AsPos ==
    LET i == CHOOSE j \in 1..Len(scopes) :
                 /\ scopes[j].kind = "KeepPos"
                 /\ \A k \in (j + 1)..Len(scopes) : scopes[k].kind # "KeepPos"
    IN scopes[i].self

\* the pen and the surface after the turtle call ins
Apply(t, ins) ==
    CASE ins.op = "clear" -> clear(t)
      [] ins.op = "setheading" -> setheading(t, ins.a)
      [] ins.op = "home" -> home(t)
      [] ins.op = "setx_pos" -> setx(t, AsPos.x + ins.a)
      [] ins.op = "circle" -> circle(t, ins.a)
      [] ins.op = "forward" -> forward(t, ins.a)
      [] ins.op = "backward" -> backward(t, ins.a)
      [] ins.op = "goto" -> goto(t, ins.a, ins.b)
      [] ins.op = "write" -> write(t, ins.a)

-----------------------------------------------------------------------------
(* The program: main, the event loop and the redraw cycle, one statement    *)
(* at a time.                                                               *)

\* what generate_aircraft draws in the redraws that are followed
SomeAircraftDraws ==
    { [a |-> 90, acid_0 |-> [callsign |-> <<"A","C","A">>, four |-> TRUE, number |-> 42],
       type_0 |-> "A320",
       acid_1 |-> [callsign |-> <<"A","F","R">>, four |-> FALSE, number |-> 999],
       type_1 |-> "BE9L"],
      [a |-> 280, acid_0 |-> [callsign |-> <<"W","J","A">>, four |-> FALSE, number |-> 7],
       type_0 |-> "C208",
       acid_1 |-> [callsign |-> <<"W","J","A">>, four |-> FALSE, number |-> 7],
       type_1 |-> "C208"] }

Init ==
    /\ turtle = NewTurtle
    /\ onclick = "None"
    /\ phase = "start"
    /\ frames = <<>>
    /\ scopes = <<>>
    /\ exc = FALSE
    /\ clicked = FALSE
    /\ moves = 0
    /\ log = <<>>
    /\ rnd = <<>>
    /\ out = <<>>

Idle == phase = "mainloop" /\ frames = <<>>

Drawing == frames # <<>>

Running == frames # <<>> /\ ~exc

AtInstr == Top(frames).pc <= Len(Code(Top(frames)))

Instr == Code(Top(frames))[Top(frames).pc]

At(op) == Running /\ AtInstr /\ Instr.op = op

Advance(fr) == [fr EXCEPT ![Len(fr)].pc = @ + 1]

SetLocals(fr, loc) == [fr EXCEPT ![Len(fr)].loc = loc]

\* a new redraw begins: draw is entered
EnterDraw(via) ==
    /\ frames' = Append(frames, Frame("draw", <<>>, via))
    /\ turtle' = [turtle EXCEPT !.redraw = @ + 1]
    /\ clicked' = FALSE
    /\ log' = <<>>

\* initialize(): the click trigger is attached
initialize ==
    /\ phase = "start"
    /\ phase' = "initialized"
    /\ onclick' = "draw"
    /\ UNCHANGED <<turtle, frames, scopes, exc, clicked, moves, log, rnd, out>>

\* main() calls draw() right after initialize()
main ==
    /\ phase = "initialized"
    /\ phase' = "main"
    /\ EnterDraw("main")
    /\ UNCHANGED <<onclick, scopes, exc, moves, rnd, out>>

\* The toolkit hands a click to the program where it processes events: in
\* the event loop, and during a redraw inside every drawing call.
ClickPoint == Idle \/ (Running /\ AtInstr /\ Instr.op \in Primitives)

\* a click while the trigger is attached: draw is called
ClickDraws ==
    /\ ClickPoint
    /\ onclick = "draw"
    /\ turtle.redraw < MaxRedraws
    /\ EnterDraw("click")
    /\ UNCHANGED <<onclick, phase, scopes, exc, moves, rnd, out>>

\* a click while the trigger is detached: nothing is called
ClickIgnored ==
    /\ ClickPoint
    /\ onclick = "None"
    /\ clicked' = TRUE
    /\ UNCHANGED <<turtle, onclick, phase, frames, scopes, exc, moves, log, rnd, out>>

\* a statement of draw itself is noted in the log (for the properties only)
Logged(what) ==
    log' = IF Top(frames).fn = "draw" THEN Append(log, what) ELSE log

\* with UnbindTurtle():
With_UnbindTurtle ==
    /\ At("with") /\ Instr.a = "UnbindTurtle"
    /\ onclick' = UnbindTurtle_enter
    /\ scopes' = Append(scopes, Scope("UnbindTurtle", NoSelf, turtle))
    /\ frames' = Advance(frames)
    /\ UNCHANGED <<turtle, phase, exc, clicked, moves, log, rnd, out>>

\* with KeepPos():
With_KeepPos ==
    /\ At("with") /\ Instr.a = "KeepPos"
    /\ scopes' = Append(scopes, Scope("KeepPos", KeepPos_init(turtle), turtle))
    /\ frames' = Advance(frames)
    /\ UNCHANGED <<turtle, onclick, phase, exc, clicked, moves, log, rnd, out>>

\* with PenUp():
With_PenUp ==
    /\ At("with") /\ Instr.a = "PenUp"
    /\ turtle' = PenUp_enter(turtle)
    /\ scopes' = Append(scopes, Scope("PenUp", NoSelf, turtle))
    /\ frames' = Advance(frames)
    /\ UNCHANGED <<onclick, phase, exc, clicked, moves, log, rnd, out>>

\* the __exit__ of the innermost open with-block
RunExit ==
    /\ turtle' = ExitScope(turtle, Top(scopes))
    /\ onclick' = IF Top(scopes).kind = "UnbindTurtle" THEN UnbindTurtle_exit
                  ELSE onclick
    /\ scopes' = Pop(scopes)

\* the body of a with-block ends
End_with ==
    /\ At("end_with")
    /\ RunExit
    /\ frames' = Advance(frames)
    /\ UNCHANGED <<phase, exc, clicked, moves, log, rnd, out>>

\* a call of the turtle library that draws or moves
Primitive ==
    /\ Running /\ AtInstr /\ Instr.op \in Primitives
    /\ turtle' = Apply(turtle, Instr)
    /\ frames' = Advance(frames)
    /\ UNCHANGED <<onclick, phase, scopes, exc, clicked, moves, log, rnd, out>>

\* a call of the turtle library raises instead
PrimitiveFails ==
    /\ Running /\ AtInstr /\ Instr.op \in Primitives
    /\ exc' = TRUE
    /\ UNCHANGED <<turtle, onclick, phase, frames, scopes, clicked, moves, log, rnd, out>>

\* a call of one of the program's routines
Call ==
    /\ At("call")
    /\ frames' = Append(Advance(frames), Frame(Instr.a, Instr.b, "call"))
    /\ Logged(Instr.a)
    /\ UNCHANGED <<turtle, onclick, phase, scopes, exc, clicked, moves, rnd, out>>

\* headings = random.uniform(*HEADING_RANGE), random.uniform(*HEADING_RANGE)
RandomHeadings ==
    /\ At("random_headings")
    /\ \E heading_0 \in SomeHeadings, heading_1 \in SomeHeadings :
          frames' = Advance(SetLocals(frames,
                       [Top(frames).loc EXCEPT !.headings = <<heading_0, heading_1>>]))
    /\ Logged("random_headings")
    /\ UNCHANGED <<turtle, onclick, phase, scopes, exc, clicked, moves, rnd, out>>

\* generate_aircraft(*headings)
GenerateAircraft ==
    /\ At("generate_aircraft")
    /\ \E d \in SomeAircraftDraws :
          LET headings == Top(frames).loc.headings IN
          frames' = Advance(SetLocals(frames,
                       [Top(frames).loc EXCEPT
                           !.aircraft = generate_aircraft(headings[1], headings[2], d)]))
    /\ Logged("generate_aircraft")
    /\ UNCHANGED <<turtle, onclick, phase, scopes, exc, clicked, moves, rnd, out>>

\* distance = random.randint(40, 170); parity = random.choice(PARITIES)
RandomDistanceParity ==
    /\ At("random_distance_parity")
    /\ \E distance \in SomeDistances, parity \in PARITIES :
          frames' = Advance(SetLocals(frames,
                       [Top(frames).loc EXCEPT !.distance = distance, !.parity = parity]))
    /\ UNCHANGED <<turtle, onclick, phase, scopes, exc, clicked, moves, log, rnd, out>>

\* the top of place_pps's loop: the parity for aircraft i
ChooseParity ==
    /\ At("next_parity")
    /\ \E choice \in PARITIES :
          LET f == Top(frames) IN
          frames' = Advance(SetLocals(frames,
                       [f.loc EXCEPT !.parity =
                           NextParity(Instr.a, f.loc.parity, f.args[1].heading,
                                      f.args[2].heading, choice)]))
    /\ UNCHANGED <<turtle, onclick, phase, scopes, exc, clicked, moves, log, rnd, out>>

\* a routine whose last statement is done never returns
Return_blocks ==
    /\ Running /\ ~AtInstr
    /\ UNCHANGED vars

\* a routine's last statement is done: it returns to its caller; when it is
\* the draw() that main() called, the event loop starts
Return ==
    /\ Running /\ ~AtInstr
    /\ frames' = Pop(frames)
    /\ phase' = IF Top(frames).via = "main" THEN "mainloop" ELSE phase
    /\ UNCHANGED <<turtle, onclick, scopes, exc, clicked, moves, log, rnd, out>>

OwnScopeOpen == scopes # <<>> /\ Top(scopes).depth = Len(frames)

\* the error leaves a with-block of the routine: its __exit__ runs
Unwind ==
    /\ frames # <<>> /\ exc
    /\ OwnScopeOpen
    /\ RunExit
    /\ UNCHANGED <<phase, frames, exc, clicked, moves, log, rnd, out>>

\* The error leaves the routine.  Out of a draw() called for a click it
\* reaches the toolkit, which reports it and goes on; out of the draw() that
\* main() called it ends the program.
Propagate ==
    /\ frames # <<>> /\ exc
    /\ ~OwnScopeOpen
    /\ frames' = Pop(frames)
    /\ exc' = IF Top(frames).via = "click" THEN FALSE ELSE exc
    /\ phase' = IF Top(frames).via = "main" THEN "exited" ELSE phase
    /\ UNCHANGED <<turtle, onclick, scopes, clicked, moves, log, rnd, out>>

Next ==
    \/ initialize
    \/ main
    \/ ClickDraws
    \/ ClickIgnored
    \/ With_UnbindTurtle
    \/ With_KeepPos
    \/ With_PenUp
    \/ End_with
    \/ Primitive
    \/ PrimitiveFails
    \/ Call
    \/ RandomHeadings
    \/ GenerateAircraft
    \/ RandomDistanceParity
    \/ ChooseParity
    \/ Return
    \/ Unwind
    \/ Propagate

Spec == Init /\ [][Next]_vars

\* The rendering routines called on their own, with the cursor anywhere.
StartPositions == { <<0, 0>>, <<Coord(50), Coord(-30)>> }

StartHeadings == {0, 90, 200}

RenderingCalls ==
    { <<"draw_circle", <<>>>>, <<"draw_pps", <<>>>>, <<"draw_scale", <<>>>> }
    \cup { <<"draw_lines", <<heading_0, heading_1>>>> :
              heading_0 \in SomeHeadings, heading_1 \in SomeHeadings }
    \cup { <<"place_pps", generate_aircraft(heading_0, heading_1, d)>> :
              heading_0 \in SomeHeadings, heading_1 \in SomeHeadings,
              d \in SomeAircraftDraws }

RoutineInit ==
    /\ \E p \in StartPositions, h \in StartHeadings :
          turtle = [NewTurtle EXCEPT !.pos = p, !.heading = h]
    /\ onclick = "draw"
    /\ phase = "routine"
    /\ \E c \in RenderingCalls : frames = <<Frame(c[1], c[2], "call")>>
    /\ scopes = <<>>
    /\ exc = FALSE
    /\ clicked = FALSE
    /\ moves = 0
    /\ log = <<>>
    /\ rnd = <<>>
    /\ out = <<>>

RoutineNext ==
    \/ With_KeepPos
    \/ With_PenUp
    \/ End_with
    \/ Primitive
    \/ PrimitiveFails
    \/ Call
    \/ RandomDistanceParity
    \/ ChooseParity
    \/ Return
    \/ Unwind
    \/ Propagate

SpecRoutines == RoutineInit /\ [][RoutineNext]_vars

\* One statement of the redraw in progress.  The program is single-threaded:
\* draw runs synchronously inside main or inside the click callback, so
\* while a redraw is in progress its next statement is eventually executed;
\* the clicks are the user's and nothing says one ever comes.
Step ==
    \/ With_UnbindTurtle
    \/ With_KeepPos
    \/ With_PenUp
    \/ End_with
    \/ Primitive
    \/ PrimitiveFails
    \/ Call
    \/ RandomHeadings
    \/ GenerateAircraft
    \/ RandomDistanceParity
    \/ ChooseParity
    \/ Return
    \/ Unwind
    \/ Propagate

SpecFair == Spec /\ WF_vars(Step)

-----------------------------------------------------------------------------
(* Properties of the scope managers (checked under SpecScopes) *)

LeavingA(kind) ==
    /\ scopes # <<>>
    /\ scopes' = Pop(scopes)
    /\ Top(scopes).kind = kind

OpenPenUp == \E i \in 1..Len(scopes) : scopes[i].kind = "PenUp"

\* C1: when a KeepPos block is left, by normal return or by an error raised
\* inside it, the cursor's position and heading are those it had when the
\* block was entered, whatever blocks were opened and left inside it.
C1_KeepPosRestores ==
    [][LeavingA("KeepPos") =>
          /\ turtle'.pos = Top(scopes).was.pos
          /\ turtle'.heading = Top(scopes).was.heading]_vars

\* an error has left every block; a stroke was drawn on the way, and the
\* cursor is back where the outermost KeepPos block found it
C1_Witness ==
    /\ exc /\ scopes = <<>> /\ moves >= 2
    /\ turtle.marks # {}
    /\ turtle.pos = <<0, 0>> /\ turtle.heading = 0

\* C9: when a PenUp block is left, by normal return or by an error raised
\* inside it, the pen is down.
C9_PenDownOnExit == [][LeavingA("PenUp") => turtle'.isdown]_vars

\* an error has left every block after a move that drew nothing (so made
\* inside a PenUp block), and the pen is down again
C9_Witness ==
    /\ exc /\ scopes = <<>>
    /\ turtle.pos # <<0, 0>> /\ turtle.marks = {}
    /\ turtle.isdown

\* C10: a cursor move in the body of a block, made while at least one PenUp
\* block is still open, leaves no mark.
C10_NoMarkWhilePenUpOpen ==
    [][(OpenPenUp /\ scopes' = scopes /\ turtle'.pos # turtle.pos)
          => turtle'.marks = turtle.marks]_vars

-----------------------------------------------------------------------------
(* Properties of the placement heuristic (checked under SpecPlace) *)

Placed == rnd.fn = "place_pps" /\ out # <<>>

HeadingGap == Abs(rnd.heading_0 - rnd.heading_1)

\* C2: when the two headings differ by less than
\* SMALLEST_SAME_HEADING_ANGLE, the second glyph's parity is the opposite of
\* the first glyph's, whatever distance and first parity were drawn.
C2_OppositeWhenClose ==
    (Placed /\ HeadingGap < SMALLEST_SAME_HEADING_ANGLE)
        => out.parity_1 = -out.parity_0

\* two different headings 29 degrees apart, placed on opposite sides
C2_Witness ==
    /\ Placed /\ HeadingGap = 29
    /\ out.parity_0 = -1 /\ out.parity_1 = 1

\* the direction from the centre in which a glyph lies: along its heading
\* for parity +1, the opposite way for parity -1
Direction(heading, parity) ==
    IF parity = 1 THEN heading % 360 ELSE (heading + 180) % 360

AngleBetween(a, b) ==
    LET d == Abs(a - b) IN IF d > 180 THEN 360 - d ELSE d

\* C3: the two glyphs, which lie at the same radius, are never closer in
\* direction from the centre than SMALLEST_SAME_HEADING_ANGLE.
C3_GlyphsApart ==
    Placed =>
        AngleBetween(Direction(rnd.heading_0, out.parity_0),
                     Direction(rnd.heading_1, out.parity_1))
            >= SMALLEST_SAME_HEADING_ANGLE

\* C11: when the two headings differ by SMALLEST_SAME_HEADING_ANGLE or more
\* (a gap of exactly 30 included), place_pps can arrive at each of the four
\* sign combinations of the two parities.
C11_FreeWhenApart ==
    (rnd.fn = "place_pps" /\ out = <<>>
        /\ HeadingGap >= SMALLEST_SAME_HEADING_ANGLE)
    => \A p0 \in PARITIES, p1 \in PARITIES :
          ENABLED (Call_place_pps /\ out'.parity_0 = p0 /\ out'.parity_1 = p1)

\* a gap of exactly the threshold, both glyphs on the same side
C11_Witness ==
    /\ Placed /\ HeadingGap = SMALLEST_SAME_HEADING_ANGLE
    /\ out.parity_0 = 1 /\ out.parity_1 = 1

-----------------------------------------------------------------------------
(* Properties of the generators (checked under SpecGen) *)

IsDigits(s) == \A i \in 1..Len(s) : \E d \in 0..9 : s[i] = DigitChar(d)

DigitValue(c) == CHOOSE d \in 0..9 : DigitChar(d) = c

RECURSIVE Value(_)
Value(s) == IF s = <<>> THEN 0
            ELSE 10 * Value(SubSeq(s, 1, Len(s) - 1)) + DigitValue(s[Len(s)])

AltitudesOf(a, s0, s1) ==
    /\ a % 10 = 0 /\ 90 <= a /\ a <= 280
    /\ Len(s0) = 3 /\ IsDigits(s0) /\ Value(s0) = a
    /\ Len(s1) = 3 /\ IsDigits(s1) /\ Value(s1) = a + 10
    /\ <<s0, s1>> # << <<"2", "9", "0">>, <<"3", "0", "0">> >>

\* C6: the altitude a that is drawn is a multiple of 10 with 90 <= a <= 280;
\* random_altitudes returns a and a + 10 as zero-padded 3-digit strings, the
\* first aircraft gets the first and the second aircraft the second, and
\* ("290", "300") is never returned.
C6_Altitudes ==
    /\ (rnd.fn = "random_altitudes" /\ out # <<>>)
          => AltitudesOf(rnd.a, out[1], out[2])
    /\ (rnd.fn = "generate_aircraft" /\ out # <<>>)
          => AltitudesOf(rnd.d.a, out[1].altitude, out[2].altitude)

\* the lowest band: the aircraft get "090" and "100"
C6_Witness ==
    /\ rnd.fn = "generate_aircraft" /\ out # <<>>
    /\ rnd.d.a = 90
    /\ out[1].altitude = <<"0", "9", "0">>
    /\ out[2].altitude = <<"1", "0", "0">>

AcidCallsign(acid) == SubSeq(acid, 1, 3)

AcidNumber(acid) == SubSeq(acid, 4, Len(acid))

MadeAcid == rnd.fn = "random_acid" /\ out # <<>>

\* C7 as stated: the identifier is a callsign of CALLSIGNS followed by a
\* 4-digit number in 1000..9999 or a 3-digit number in 100..999.
C7_NumberWithoutLeadingZero ==
    MadeAcid =>
        /\ AcidCallsign(out) \in CALLSIGNS
        /\ IsDigits(AcidNumber(out))
        /\ \/ Len(AcidNumber(out)) = 4 /\ Value(AcidNumber(out)) \in 1000..9999
           \/ Len(AcidNumber(out)) = 3 /\ Value(AcidNumber(out)) \in 100..999

\* C7 as amended: the identifier is a callsign of CALLSIGNS followed by the
\* number drawn, zero-padded: exactly 4 digits (0000..9999) in the
\* low-probability branch, exactly 3 digits (000..999) in the other.
C7_ZeroPaddedNumber ==
    MadeAcid =>
        /\ AcidCallsign(out) \in CALLSIGNS
        /\ IsDigits(AcidNumber(out))
        /\ Value(AcidNumber(out)) = rnd.d.number
        /\ rnd.d.four => Len(AcidNumber(out)) = 4 /\ rnd.d.number \in 0..9999
        /\ ~rnd.d.four => Len(AcidNumber(out)) = 3 /\ rnd.d.number \in 0..999

\* a 4-digit flight number with leading zeros
C7_Witness ==
    /\ MadeAcid
    /\ out = <<"A", "C", "A", "0", "0", "4", "2">>

-----------------------------------------------------------------------------
(* Properties of the redraw cycle (checked under Spec) *)

DrawFrames == {i \in 1..Len(frames) : frames[i].fn = "draw"}

GuardOpen == \E i \in 1..Len(scopes) : scopes[i].kind = "UnbindTurtle"

\* C4: a click delivered while a redraw is in progress changes nothing: it
\* finds the trigger detached, so no second redraw starts and at most one
\* redraw is ever in progress; the trigger stays detached for as long as the
\* guard's block is open.
C4_NoReentrantDraw ==
    /\ [](Cardinality(DrawFrames) <= 1)
    /\ []((Drawing /\ ClickPoint) => onclick = "None")
    /\ [](GuardOpen => onclick = "None")
    /\ [][(Drawing /\ ~clicked /\ clicked')
            => UNCHANGED <<turtle, onclick, phase, frames, scopes, exc>>]_vars

\* the first redraw has run to its end although a click arrived during it
C4_Witness ==
    /\ Idle /\ clicked /\ turtle.redraw = 1
    /\ \E m \in turtle.marks : m.text = <<"1 MILE">>

\* C5: whenever a redraw ends, by return or by an error raised inside the
\* guard, the click trigger is attached to draw again; in the event loop,
\* between redraws, it is always attached.
C5_TriggerReattached ==
    /\ [][Cardinality(DrawFrames') < Cardinality(DrawFrames)
            => onclick' = "draw"]_vars
    /\ [](Idle => onclick = "draw")

\* the second redraw was cut short by an error (its scale was never
\* labelled), and the trigger is attached
C5_Witness ==
    /\ Idle /\ turtle.redraw = 2 /\ ~exc
    /\ turtle.marks # {}
    /\ \A m \in turtle.marks : m.text # <<"1 MILE">>
    /\ onclick = "draw"

DrawDone ==
    /\ Running
    /\ Top(frames).fn = "draw"
    /\ ~AtInstr

\* draw's call of reset has returned (without an error)
ResetDone ==
    /\ Running
    /\ frames[1].fn = "draw" /\ frames[1].pc >= 3
    /\ Len(frames) >= 2 => frames[2].fn # "reset"

\* C8: once reset has run in a redraw, and so at the end of the redraw,
\* every mark on the surface was made during that redraw: none is left from
\* an earlier one.
C8_OnlyThisRedrawsMarks ==
    (ResetDone \/ DrawDone) => \A m \in turtle.marks : m.redraw = turtle.redraw

\* the end of the second redraw, with its drawing on the surface
C8_Witness ==
    /\ DrawDone /\ turtle.redraw = 2
    /\ \E m \in turtle.marks : m.kind = "circle"


-----------------------------------------------------------------------------
(* Properties of the redraw cycle *)

\* no redraw is in progress: the Idle of the specification, which is also
\* the state before main's first call of draw
NoRedraw == frames = <<>>

\* C12: the program is either idle (no redraw in progress) or drawing.  It
\* starts idle; a redraw starts only from idle, by main's first call of draw
\* or by a click handled in the event loop, and never inside another
\* redraw; every redraw in progress eventually ends, after which the
\* program stays idle until a click starts the next one.
C12_IdleDrawingCycle ==
    /\ NoRedraw
    /\ [][(NoRedraw /\ Drawing') => (main \/ (Idle /\ ClickDraws))]_vars
    /\ [][Cardinality(DrawFrames') > Cardinality(DrawFrames) => NoRedraw]_vars
    /\ [][(Idle /\ ~Idle') => ClickDraws]_vars
    /\ (Drawing ~> NoRedraw)

\* back in the event loop after a redraw that a click started and that ran
\* to its end
C12_Witness ==
    /\ Idle /\ turtle.redraw = 2
    /\ Len(log) = 7
    /\ \E m \in turtle.marks : m.text = <<"1 MILE">> /\ m.redraw = 2


DrawOrder ==
    << "reset", "draw_circle", "random_headings", "draw_lines",
       "generate_aircraft", "place_pps", "draw_scale" >>

IsPrefix(s, t) == Len(s) <= Len(t) /\ s = SubSeq(t, 1, Len(s))

\* the point at a signed distance (in tenths) from the centre along a heading
Along(heading, distance) == <<distance * Sin(heading), distance * Cos(heading)>>

\* a mark that shows: anything but a line of no length
Visible(m) == m.kind # "line" \/ m.from # m.to

\* the diameter at a heading was drawn in this redraw
LineDrawn(heading) ==
    \E m \in turtle.marks :
        /\ m.kind = "line" /\ m.redraw = turtle.redraw
        /\ m.from = Along(heading, Tenths(RADIUS))
        /\ m.to = Along(heading, -Tenths(RADIUS))

\* C13: in a redraw draw's steps run in the order reset, circle, random
\* headings, heading lines, aircraft generation, placement, scale, none of
\* them twice, and all of them by the end; after reset the surface is empty
\* and the cursor is at the origin with the home heading; the headings are
\* drawn once, and the heading of each aircraft given to place_pps is the
\* heading its line was drawn at.
C13_StepsInOrder ==
    /\ IsPrefix(log, DrawOrder)
    /\ DrawDone => log = DrawOrder
    /\ (Running /\ Top(frames).fn = "draw" /\ log = <<"reset">>)
          => /\ turtle.pos = <<0, 0>> /\ turtle.heading = 0
             /\ \A m \in turtle.marks : ~Visible(m)
    /\ \A k \in 1..Len(frames) :
          frames[k].fn = "place_pps"
          => \A i \in 1..2 :
                /\ frames[k].args[i].heading = frames[1].loc.headings[i]
                /\ LineDrawn(frames[k].args[i].heading)

\* the second redraw is done, with two different headings
C13_Witness ==
    /\ DrawDone /\ turtle.redraw = 2
    /\ log = DrawOrder
    /\ frames[1].loc.headings = <<20, 170>>
    /\ LineDrawn(20) /\ LineDrawn(170)


\* the marks a turtle call would add to the surface
NewMarks(ins) == Apply(turtle, ins).marks \ turtle.marks

\* C17: whenever no redraw is in progress (before the first one, and after
\* each one, whether it ran to its end or a drawing call raised) the cursor
\* is at the origin with the home heading and the pen is down; so the
\* home() of reset starts at the origin and adds no visible stroke.
C17_HomeWhenIdle ==
    /\ NoRedraw
          => /\ turtle.pos = <<0, 0>> /\ turtle.heading = 0
             /\ turtle.isdown
    /\ At("home")
          => /\ turtle.pos = <<0, 0>> /\ turtle.isdown
             /\ \A m \in NewMarks(Instr) : ~Visible(m)

\* back in the event loop after a second redraw that an error cut short
\* after its circle, inside the checkpoint of a later routine
C17_Witness ==
    /\ Idle /\ turtle.redraw = 2 /\ ~exc
    /\ \E m \in turtle.marks : m.kind = "circle" /\ m.redraw = 2
    /\ \A m \in turtle.marks : m.text # <<"1 MILE">>
    /\ turtle.pos = <<0, 0>>

-----------------------------------------------------------------------------
(* Properties of the placement on the surface *)

\* place_pps is the routine being run, at a statement of the given kind
InPlace(op) == At(op) /\ Top(frames).fn = "place_pps"

\* the turn of place_pps's loop that is being run: 1 or 2
Turn ==
    LET f == Top(frames) IN
    Cardinality({j \in 1..f.pc : Code(f)[j].op = "next_parity"})

\* the aircraft of that turn
Current == Top(frames).args[Turn]

Sum(p, q) == <<p[1] + q[1], p[2] + q[2]>>

\* a glyph drawn in this redraw with its anchor at p: its hexagon begins one
\* side north of the anchor
GlyphAt(p) ==
    \E m \in turtle.marks :
        /\ m.kind = "line" /\ m.redraw = turtle.redraw
        /\ m.from = Sum(p, Along(0, Tenths(PPS_SIDE)))
        /\ m.to = Sum(m.from, Along(120, Tenths(PPS_SIDE)))

\* C14: place_pps draws one distance in 40..170; where it calls draw_pps
\* the cursor is at that distance, signed by the parity of the turn, from
\* the centre along the heading of the turn's aircraft, in the second turn
\* as in the first; at the end of the redraw both glyphs are on the surface
\* at one and the same distance from the centre, each along its heading.
C14_AnchorsFromCentre ==
    /\ InPlace("call")
          => /\ Top(frames).loc.distance \in DistanceDraws
             /\ Top(frames).loc.parity \in PARITIES
             /\ turtle.pos = Along(Current.heading,
                                   Top(frames).loc.parity * Tenths(Top(frames).loc.distance))
    /\ DrawDone
          => \E distance \in DistanceDraws, parity_0 \in PARITIES, parity_1 \in PARITIES :
                /\ GlyphAt(Along(frames[1].loc.headings[1], parity_0 * Tenths(distance)))
                /\ GlyphAt(Along(frames[1].loc.headings[2], parity_1 * Tenths(distance)))

\* the second glyph is about to be drawn, on the other side of the centre
\* than the first, whose glyph and tag are on the surface
C14_Witness ==
    /\ InPlace("call") /\ Turn = 2
    /\ Top(frames).loc.distance = 170 /\ Top(frames).loc.parity = -1
    /\ Top(frames).args[1].heading = 20 /\ Current.heading = 170
    /\ GlyphAt(Along(20, Tenths(170)))
    /\ \E m \in turtle.marks : m.kind = "text" /\ m.text = Tag(Top(frames).args[1])


\* the signed distance (in tenths) of the tag point from the centre
TagDistance(parity, distance) == parity * (Tenths(distance) + Tenths(RADIUS) \div 4)

\* a tag written in this redraw at p
TagAt(p, text) ==
    \E m \in turtle.marks :
        /\ m.kind = "text" /\ m.redraw = turtle.redraw
        /\ m.from = p /\ m.text = text

\* C16: where place_pps writes an aircraft's tag the cursor is on that
\* aircraft's heading line at the signed distance
\* parity * (distance + RADIUS / 4) from the centre, so on the glyph's side
\* and RADIUS / 4 beyond it; the cursor's heading is the aircraft's from the
\* return of draw_pps on; at the end of the redraw each tag is on the
\* surface at that point beyond its glyph.
C16_TagBeyondGlyph ==
    /\ InPlace("write")
          => turtle.pos = Along(Current.heading,
                                TagDistance(Top(frames).loc.parity, Top(frames).loc.distance))
    /\ (Running /\ Top(frames).fn = "place_pps" /\ Top(frames).pc > 1
           /\ Code(Top(frames))[Top(frames).pc - 1].op = "call")
          => turtle.heading = Current.heading % 360
    /\ DrawDone
          => \A i \in 1..2 :
                \E distance \in DistanceDraws, parity \in PARITIES :
                   LET aircraft == frames[1].loc.aircraft[i] IN
                   /\ GlyphAt(Along(aircraft.heading, parity * Tenths(distance)))
                   /\ TagAt(Along(aircraft.heading, TagDistance(parity, distance)),
                            Tag(aircraft))

\* the second aircraft's tag is about to be written, on the far side of the
\* centre, after its glyph was drawn
C16_Witness ==
    /\ InPlace("write") /\ Turn = 2
    /\ Top(frames).loc.parity = -1 /\ Top(frames).loc.distance = 40
    /\ Current.heading = 170
    /\ GlyphAt(Along(170, -Tenths(40)))
    /\ turtle.pos = Along(170, -(Tenths(40) + Tenths(RADIUS) \div 4))

-----------------------------------------------------------------------------
(* Properties of the rendering routines (checked under SpecRoutines) *)

LeavesPenState ==
    {"draw_circle", "draw_lines", "place_pps", "draw_pps", "draw_scale"}

\* the routine being run is over: its last statement is done, or an error
\* is leaving it
RoutineOver ==
    /\ frames # <<>>
    /\ \/ ~exc /\ ~AtInstr
       \/ exc /\ ~OwnScopeOpen

\* C15: when draw_circle, draw_lines, place_pps, draw_pps or draw_scale
\* returns, or an error leaves it, the cursor has the position and the
\* heading it had when the routine was called, wherever that was.
C15_RoutineLeavesPenState ==
    (RoutineOver /\ Top(frames).fn \in LeavesPenState)
    => /\ turtle.pos = Top(frames).was.pos
       /\ turtle.heading = Top(frames).was.heading

\* draw_scale called away from the origin has written its label and is
\* about to return
C15_Witness ==
    /\ RoutineOver /\ ~exc
    /\ frames = <<Top(frames)>> /\ Top(frames).fn = "draw_scale"
    /\ Top(frames).was = [pos |-> <<Coord(50), Coord(-30)>>, heading |-> 200]
    /\ \E m \in turtle.marks : m.text = <<"1 MILE">>


-----------------------------------------------------------------------------
(* Properties of the pen during a redraw *)

\* the turtle calls that move the cursor
Moves == {"setx_pos", "forward", "backward", "goto", "circle"}

\* the moves that draw a shape: the circle, a diameter (drawn backward
\* from its far end), the sides of the hexagon and the triangle, the
\* bracket of the scale
Stroke ==
    \/ Instr.op \in {"circle", "backward"}
    \/ Top(frames).fn \in {"draw_hexagon", "draw_triangle", "draw_scale_bracket"}

\* C18: in a redraw every move that belongs to a shape is made with the
\* pen down and every other move (to the circle's edge, to the far end of a
\* diameter, to a glyph's anchor and its first corner, to the tag point, to
\* the corner and the label of the scale) with the pen up; going back to a
\* checkpoint leaves no mark.
C18_NoStrayLine ==
    /\ []((Running /\ AtInstr /\ Instr.op \in Moves) => (turtle.isdown <=> Stroke))
    /\ [][LeavingA("KeepPos") => turtle'.marks = turtle.marks]_vars

\* the bracket of the scale is about to be drawn, pen down, and no line
\* leads to the corner it starts at
C18_Witness ==
    /\ At("forward") /\ Top(frames).fn = "draw_scale_bracket" /\ Top(frames).pc = 1
    /\ turtle.isdown
    /\ turtle.pos = <<Coord(-RADIUS), Coord(RADIUS)>>
    /\ \A m \in turtle.marks : m.kind = "line" => m.to # turtle.pos

=============================================================================
